---- MODULE Spec2Model ----
(***************************************************************************)
(* State machine of the REP socket of src/src/rep.rs: the backend's peer   *)
(* registry (DashMap), the fair-queue multiplexer it feeds, and the        *)
(* single-owner front end with its pending exchange (envelope +            *)
(* current_request).                                                       *)
(*                                                                         *)
(* Frames are numbers: 0 is the empty frame (the delimiter), 1..MaxBlob    *)
(* are distinct non-empty byte blobs.  A message is a sequence of frames.  *)
(* Peer identities are 1..NumPeers; 0 stands for None where an identity    *)
(* or a connection is optional.                                            *)
(***************************************************************************)
EXTENDS Integers, Sequences, FiniteSets, TLC

\* ---------------------------------------------------------------- bounds
NumPeers == 2
MaxBlob == 1
MaxFrames == 3
MaxReply == 1
MaxItems == 2
MaxFairItems == 3
MaxReuse == 1
NumShards == 2
MaxMonitors == 2
MaxMonitorItems == 1

Ids == 1..NumPeers
Frames == 0..MaxBlob
SeqsUpTo(S, n) == UNION {[1..k -> S] : k \in 1..n}
Messages == SeqsUpTo(Frames, MaxFrames)
Replies == SeqsUpTo(Frames, MaxReply)

\* What a peer's read half can yield: Ok(Message::Message(m)), Ok(any other
\* Message variant), Err(codec error).
DataItem(m) == [kind |-> "msg", m |-> m]
CtlItem == [kind |-> "ctl", m |-> <<>>]
ErrItem == [kind |-> "err", m |-> <<>>]
Items == {DataItem(m) : m \in Messages} \cup {CtlItem, ErrItem}

\* Option<ZmqMessage>
NoneMsg == [some |-> FALSE, val |-> <<>>]
SomeMsg(m) == [some |-> TRUE, val |-> m]

VARIABLES
    peers,            \* backend.peers: identity -> connection registered (0: absent)
    sinks,            \* what was written to each identity's send_queue, tagged by connection
    fq,               \* fair_queue_inner: identity -> inbound source (its connection,
                      \* the number of items buffered on it)
    rr,               \* fair queue: identity served last
    envelope,         \* RepSocket.envelope
    current_request,  \* RepSocket.current_request (0: None)
    appPc,            \* the socket owner: "idle", "sending" (suspended in send), "crashed"
    inflight,         \* the message a suspended send is pushing, and the entry it holds
    ret,              \* return value of the owner's last completed recv/send
    connPc,           \* per identity: position of a running peer_connected
    gen,              \* per identity: connections accepted so far
    shardOf,          \* DashMap: the shard each identity hashes to
    accepting,        \* the socket has a listener (binds) that hands over connections;
                      \* without one no source can ever arrive
    wire,             \* the items peers may put on the wire
    budget,           \* how many items and reconnections the peers produce in all
    sent,             \* items sent so far
    delivered,        \* the (identity, connection, item) the last recv pulled
    churn,            \* some peer_disconnected or shutdown has run
    gone,             \* peer_disconnected ran for the peer owed a reply, after the recv
                      \* that returned its request and before any send
    waited,           \* per identity: pulls served to others while it had data ready
    log,              \* "r" per request returned by recv, "w" per message written to a sink
    socket_monitor,   \* backend.socket_monitor: the sender half installed (chan 0: None),
                      \* whether its receiver is still held, whether its buffer is full
    nmon,             \* monitor() calls so far; call k returns the receiver of channel k
    lastEvent,        \* what the try_send of the latest peer_disconnected did, and on
                      \* which channel
    shut,             \* shutdown has run
    replaced          \* what the latest recv that returned a request overwrote: the
                      \* identity still owed a reply, -1 for an envelope left without
                      \* one, 0 for nothing

vars == <<peers, sinks, fq, rr, envelope, current_request, appPc, inflight, ret,
          connPc, gen, shardOf, accepting, wire, budget, sent, delivered, churn,
          gone, waited, log, socket_monitor, nmon, lastEvent, shut, replaced>>

\* The monitor channel and the count of monitor() calls.
monitorVars == <<socket_monitor, nmon>>

NoSource == [conn |-> 0, pending |-> 0]
NoInflight == [peer |-> 0, conn |-> 0, msg |-> <<>>]
NoRet == [op |-> "none", kind |-> "none", msg |-> <<>>]
NoDelivered == [peer |-> 0, conn |-> 0, item |-> [kind |-> "none", m |-> <<>>]]
NoMonitor == [chan |-> 0, rx |-> FALSE, full |-> FALSE]
NoEvent == [outcome |-> "none", chan |-> 0]

\* Shard assignments up to renaming of shards.
ShardMaps ==
    {f \in [Ids -> 1..NumShards] :
        \A i \in Ids : f[i] = 1 \/ \E j \in 1..(i - 1) : f[j] >= f[i] - 1}

InitCommon ==
    /\ peers = [p \in Ids |-> 0]
    /\ sinks = [p \in Ids |-> <<>>]
    /\ fq = [p \in Ids |-> NoSource]
    /\ rr = 0
    /\ envelope = NoneMsg
    /\ current_request = 0
    /\ appPc = "idle"
    /\ inflight = NoInflight
    /\ ret = NoRet
    /\ connPc = [p \in Ids |-> "idle"]
    /\ gen = [p \in Ids |-> 0]
    /\ shardOf \in ShardMaps
    /\ accepting \in BOOLEAN
    /\ sent = 0
    /\ delivered = NoDelivered
    /\ churn = FALSE
    /\ gone = FALSE
    /\ waited = [p \in Ids |-> 0]
    /\ log = <<>>
    /\ socket_monitor = NoMonitor
    /\ nmon = 0
    /\ lastEvent = NoEvent
    /\ shut = FALSE
    /\ replaced = 0

Init ==
    /\ InitCommon
    /\ wire = Items
    /\ budget = MaxItems

\* ------------------------------------------------- codec (crate::codec)
\* ZmqMessage::split_off(at): the message keeps frames [0, at), the frames
\* [at, len) are returned.
KeptFrames(m, at) == SubSeq(m, 1, at)
SplitOff(m, at) == SubSeq(m, at + 1, Len(m))
\* ZmqMessage::prepend(&envelope): the envelope's frames, in order, in front.
Prepend(message, env) == env \o message

\* ------------------------------------- fair queue (crate::fair_queue)
Registered == {p \in Ids : fq[p].conn # 0}
Ready == {p \in Registered : fq[p].pending > 0}
\* Rotation: the ready source that comes first after the one served last.
Turn(p) == (p - rr - 1) % NumPeers
NextSourceLowest == CHOOSE p \in Ready : \A q \in Ready : p <= q
NextSource == CHOOSE p \in Ready : \A q \in Ready : Turn(p) <= Turn(q)
\* No source is left and none can arrive.
Exhausted ==
    /\ Registered = {}
    /\ ~accepting
    /\ \A p \in Ids : connPc[p] = "idle"

\* ------------------------------------------------------------ DashMap
\* get_mut holds the write lock of the entry's shard until the RefMut is
\* dropped; send keeps it across the sink's .await.
ShardLocked(p) == appPc = "sending" /\ shardOf[inflight.peer] = shardOf[p]
AnyShardLocked == appPc = "sending"

\* ----------------------------------------------------- peer_connected
\* Connections accepted under an identity that had one before.
RECURSIVE SumReused(_)
SumReused(S) ==
    IF S = {} THEN 0
    ELSE LET p == CHOOSE q \in S : TRUE
         IN (IF gen[p] > 1 THEN gen[p] - 1 ELSE 0) + SumReused(S \ {p})
Reused == SumReused(Ids)

\* The order of the two registrations: peers.insert, then the fair queue.
ConnectOrderSwapped == <<"fair_queue", "peers">>
ConnectOrder == <<"peers", "fair_queue">>

ConnectStep(what, p, c) ==
    IF what = "peers"
    THEN /\ ~ShardLocked(p)
         /\ peers' = [peers EXCEPT ![p] = c]
         /\ UNCHANGED <<fq, waited>>
    ELSE /\ fq' = [fq EXCEPT ![p] = [conn |-> c, pending |-> 0]]
         /\ waited' = [waited EXCEPT ![p] = 0]
         /\ UNCHANGED peers

PeerConnectedBegin(p) ==
    /\ appPc # "crashed"
    /\ accepting
    /\ connPc[p] = "idle"
    /\ gen[p] = 0 \/ (peers[p] = 0 /\ Reused < MaxReuse /\ sent + Reused < budget)
    /\ ConnectStep(ConnectOrder[1], p, gen[p] + 1)
    /\ gen' = [gen EXCEPT ![p] = @ + 1]
    /\ connPc' = [connPc EXCEPT ![p] = "half"]
    /\ UNCHANGED <<sinks, rr, envelope, current_request, appPc, inflight, ret,
                   shardOf, accepting, wire, budget, sent, delivered, churn, gone, log,
                   monitorVars, lastEvent, shut, replaced>>

PeerConnectedEnd(p) ==
    /\ appPc # "crashed"
    /\ connPc[p] = "half"
    /\ ConnectStep(ConnectOrder[2], p, gen[p])
    /\ connPc' = [connPc EXCEPT ![p] = "idle"]
    /\ UNCHANGED <<sinks, rr, envelope, current_request, appPc, inflight, ret,
                   gen, shardOf, accepting, wire, budget, sent, delivered, churn, gone, log,
                   monitorVars, lastEvent, shut, replaced>>

\* -------------------------------------------------- peer_disconnected
\* monitor.try_send(Disconnected(peer_id)) under the monitor's lock: nothing
\* to do without a sender; an error when the receiver was dropped or the
\* buffer is full; otherwise the event is queued.
TrySend ==
    IF socket_monitor.chan = 0 THEN "absent"
    ELSE IF ~socket_monitor.rx THEN "closed"
    ELSE IF socket_monitor.full THEN "full"
    ELSE "sent"

\* `let _ =` drops the result of try_send: the removal runs after any outcome.
RemovesAfterOnlyIfSent(outcome) == outcome \in {"absent", "sent"}
RemovesAfter(outcome) == TRUE

RemovePeerAll(p) == [q \in Ids |-> 0]
RemovePeer(p) == [peers EXCEPT ![p] = 0]

\* The buffer holds mpsc::channel(1024) events; the model keeps only whether
\* it has room, so an event queued may or may not have taken the last place.
PeerDisconnected(p) ==
    /\ appPc # "crashed"
    /\ connPc[p] = "idle"
    /\ gen[p] > 0
    /\ ~ShardLocked(p)
    /\ lastEvent' = [outcome |-> TrySend, chan |-> socket_monitor.chan]
    /\ IF TrySend = "sent"
       THEN \E f \in BOOLEAN : socket_monitor' = [socket_monitor EXCEPT !.full = f]
       ELSE UNCHANGED socket_monitor
    /\ peers' = IF RemovesAfter(TrySend) THEN RemovePeer(p) ELSE peers
    /\ churn' = TRUE
    /\ gone' = (gone \/ (appPc = "idle" /\ current_request = p))
    /\ UNCHANGED <<sinks, fq, rr, envelope, current_request, appPc, inflight, ret,
                   connPc, gen, shardOf, accepting, wire, budget, sent, delivered,
                   waited, log, nmon, shut, replaced>>

\* ------------------------------------------------------------ monitor
\* monitor(): a new channel, its sender put in place of the one installed.
InstalledIfNone(chan) ==
    IF socket_monitor.chan # 0 THEN socket_monitor
    ELSE [chan |-> chan, rx |-> TRUE, full |-> FALSE]
Installed(chan) == [chan |-> chan, rx |-> TRUE, full |-> FALSE]

Monitor ==
    /\ appPc = "idle"
    /\ nmon < MaxMonitors
    /\ nmon' = nmon + 1
    /\ socket_monitor' = Installed(nmon + 1)
    /\ UNCHANGED <<peers, sinks, fq, rr, envelope, current_request, appPc, inflight,
                   ret, connPc, gen, shardOf, accepting, wire, budget, sent, delivered,
                   churn, gone, waited, log, lastEvent, shut, replaced>>

\* The holder of the installed channel's receiver takes an event off a full
\* buffer.
MonitorTake ==
    /\ socket_monitor.chan # 0
    /\ socket_monitor.rx
    /\ socket_monitor.full
    /\ socket_monitor' = [socket_monitor EXCEPT !.full = FALSE]
    /\ UNCHANGED <<peers, sinks, fq, rr, envelope, current_request, appPc, inflight,
                   ret, connPc, gen, shardOf, accepting, wire, budget, sent, delivered,
                   churn, gone, waited, log, nmon, lastEvent, shut, replaced>>

\* The holder of the installed channel's receiver drops it.
MonitorDropReceiver ==
    /\ socket_monitor.chan # 0
    /\ socket_monitor.rx
    /\ socket_monitor' = [socket_monitor EXCEPT !.rx = FALSE]
    /\ UNCHANGED <<peers, sinks, fq, rr, envelope, current_request, appPc, inflight,
                   ret, connPc, gen, shardOf, accepting, wire, budget, sent, delivered,
                   churn, gone, waited, log, nmon, lastEvent, shut, replaced>>

\* ----------------------------------------------------------- shutdown
\* Also what Drop for RepSocket runs, a crashed owner included.
\* peers.clear() leaves no entry.
ClearedExceptOwed == [p \in Ids |-> IF p = current_request THEN peers[p] ELSE 0]
Cleared == [p \in Ids |-> 0]

Shutdown ==
    /\ ~AnyShardLocked
    /\ \E p \in Ids : gen[p] > 0
    /\ peers' = Cleared
    /\ churn' = TRUE
    /\ shut' = TRUE
    /\ UNCHANGED gone
    /\ UNCHANGED <<sinks, fq, rr, envelope, current_request, appPc, inflight, ret,
                   connPc, gen, shardOf, accepting, wire, budget, sent, delivered,
                   waited, log, monitorVars, lastEvent, replaced>>

\* -------------------------------------------------------- environment
\* A connected peer writes one item to its connection.  What the item is
\* shows only when the codec yields it, so it is drawn at the pull.
PeerSend(p) ==
    /\ appPc # "crashed"
    /\ fq[p].conn # 0
    /\ sent + Reused < budget
    /\ fq' = [fq EXCEPT ![p].pending = @ + 1]
    /\ sent' = sent + 1
    /\ UNCHANGED <<peers, sinks, rr, envelope, current_request, appPc, inflight, ret,
                   connPc, gen, shardOf, accepting, wire, budget, delivered, churn, gone,
                   waited, log, monitorVars, lastEvent, shut, replaced>>

\* --------------------------------------------------------------- recv
\* The scan of recv: `at` is one past the first empty frame, 1 if none.
RECURSIVE ScanFrom(_, _)
ScanFrom(m, index) ==
    IF index >= Len(m) THEN 1
    ELSE IF m[index + 1] = 0 THEN index + 1
    ELSE ScanFrom(m, index + 1)
SplitPointFirstFrame(m) == 1
SplitPointAtDelimiter(m) == IF ScanFrom(m, 0) > 1 THEN ScanFrom(m, 0) - 1 ELSE 1
SplitPoint(m) == ScanFrom(m, 0)

\* self.envelope = Some(m) and self.current_request = Some(peer_id): both
\* are assigned whatever they held.
NewEnvelopeIfNone(m) == IF envelope.some THEN envelope ELSE SomeMsg(m)
NewEnvelope(m) == SomeMsg(m)
NewRequestIfNone(peer_id) == IF current_request # 0 THEN current_request ELSE peer_id
NewRequest(peer_id) == peer_id

\* fair_queue.next() yielded Some((peer_id, item)).
RecvPull(item) ==
    /\ appPc = "idle"
    /\ Ready # {}
    /\ item \in wire
    /\ LET peer_id == NextSource
       IN /\ fq' = [q \in Ids |->
                      IF q = peer_id THEN [fq[q] EXCEPT !.pending = @ - 1]
                      ELSE fq[q]]
          /\ rr' = peer_id
          /\ delivered' = [peer |-> peer_id, conn |-> fq[peer_id].conn, item |-> item]
          /\ waited' = [q \in Ids |->
                          IF q # peer_id /\ q \in Ready THEN waited[q] + 1 ELSE 0]
          /\ IF item.kind = "msg" /\ Len(item.m) > 1
             THEN LET at == SplitPoint(item.m)
                  IN /\ envelope' = NewEnvelope(KeptFrames(item.m, at))
                     /\ current_request' = NewRequest(peer_id)
                     /\ ret' = [op |-> "recv", kind |-> "ok", msg |-> SplitOff(item.m, at)]
                     /\ log' = Append(log, "r")
                     /\ gone' = FALSE
                     /\ replaced' = IF current_request # 0 THEN current_request
                                    ELSE IF envelope.some THEN -1
                                    ELSE 0
                     /\ UNCHANGED appPc
             ELSE \* assert!(m.len() > 1) fails, or todo!() is reached
                  /\ appPc' = "crashed"
                  /\ ret' = [op |-> "recv", kind |-> "panic", msg |-> <<>>]
                  /\ UNCHANGED <<envelope, current_request, log, gone, replaced>>
    /\ UNCHANGED <<peers, sinks, inflight, connPc, gen, shardOf, accepting, wire,
                   budget, sent, churn, monitorVars, lastEvent, shut>>

\* fair_queue.next() yielded None.
RecvNoMessage ==
    /\ appPc = "idle"
    /\ Ready = {}
    /\ Exhausted
    /\ ret' = [op |-> "recv", kind |-> "NoMessage", msg |-> <<>>]
    /\ UNCHANGED <<peers, sinks, fq, rr, envelope, current_request, appPc, inflight,
                   connPc, gen, shardOf, accepting, wire, budget, sent, delivered,
                   churn, gone, waited, log, monitorVars, lastEvent, shut, replaced>>

Recv == (\E item \in Items : RecvPull(item)) \/ RecvNoMessage

\* --------------------------------------------------------------- send
\* current_request.take() leaves None behind.
AfterTakeKept(cur) == cur
AfterTakeUnlessGone(cur) == IF cur # 0 /\ peers[cur] = 0 THEN cur ELSE 0
AfterTake(cur) == 0

\* envelope.take() leaves None behind.
EnvelopeKept == envelope
EnvelopeTaken == NoneMsg

\* The message a ReturnToSender error carries.
ReturnedWithEnvelope(message) ==
    IF envelope.some THEN Prepend(message, envelope.val) ELSE message
Returned(message) == message

ReasonDisconnected == "Client disconnected"
ReasonNoRequest == "Unable to send reply. No request in progress"
ReturnToSender(reason, message) == [op |-> "send", kind |-> reason, msg |-> message]

\* send up to its .await: the take, the lookup, the prepend.
SendBegin(message) ==
    /\ appPc = "idle"
    /\ LET peer_id == current_request
       IN /\ current_request' = AfterTake(current_request)
          /\ gone' = FALSE
          /\ IF peer_id # 0
             THEN IF peers[peer_id] # 0
                  THEN /\ inflight' =
                            [peer |-> peer_id, conn |-> peers[peer_id],
                             msg |-> IF envelope.some
                                     THEN Prepend(message, envelope.val)
                                     ELSE message]
                       /\ envelope' = EnvelopeTaken
                       /\ appPc' = "sending"
                       /\ UNCHANGED ret
                  ELSE /\ ret' = ReturnToSender(ReasonDisconnected, Returned(message))
                       /\ UNCHANGED <<envelope, inflight, appPc>>
             ELSE /\ ret' = ReturnToSender(ReasonNoRequest, Returned(message))
                  /\ UNCHANGED <<envelope, inflight, appPc>>
    /\ UNCHANGED <<peers, sinks, fq, rr, connPc, gen, shardOf, accepting, wire,
                   budget, sent, delivered, churn, waited, log, monitorVars, lastEvent,
                   shut, replaced>>

\* The sink accepted the message: Ok(()).
SendComplete ==
    /\ appPc = "sending"
    /\ sinks' = [sinks EXCEPT ![inflight.peer] =
                    Append(@, [conn |-> inflight.conn, msg |-> inflight.msg])]
    /\ log' = Append(log, "w")
    /\ ret' = [op |-> "send", kind |-> "ok", msg |-> <<>>]
    /\ inflight' = NoInflight
    /\ appPc' = "idle"
    /\ UNCHANGED <<peers, fq, rr, envelope, current_request, connPc, gen, shardOf,
                   accepting, wire, budget, sent, delivered, churn, gone, waited,
                   monitorVars, lastEvent, shut, replaced>>

\* The sink failed: the `?` returns its error.
SendSinkError ==
    /\ appPc = "sending"
    /\ ret' = [op |-> "send", kind |-> "sink error", msg |-> <<>>]
    /\ inflight' = NoInflight
    /\ appPc' = "idle"
    /\ UNCHANGED <<peers, sinks, fq, rr, envelope, current_request, connPc, gen,
                   shardOf, accepting, wire, budget, sent, delivered, churn, gone, waited,
                   log, monitorVars, lastEvent, shut, replaced>>

\* ------------------------------------------------------ specification
Next ==
    \/ \E p \in Ids : PeerConnectedBegin(p)
    \/ \E p \in Ids : PeerConnectedEnd(p)
    \/ \E p \in Ids : PeerDisconnected(p)
    \/ Shutdown
    \/ \E p \in Ids : PeerSend(p)
    \/ Recv
    \/ \E message \in Replies : SendBegin(message)
    \/ SendComplete
    \/ SendSinkError

Spec == Init /\ [][Next]_vars

\* The fairness scenario: peers send only the request [empty, payload], and
\* enough of them for one peer to queue several while another queues one.
InitFair ==
    /\ InitCommon
    /\ wire = {DataItem(<<0, 1>>)}
    /\ budget = MaxFairItems

SpecFair == InitFair /\ [][Next]_vars

\* The monitor scenario: the owner also calls monitor(), and the holder of the
\* receiver reads from it or drops it.
InitMonitor ==
    /\ InitCommon
    /\ wire = {DataItem(<<1, 0, 1>>)}
    /\ budget = MaxMonitorItems

NextMonitor ==
    \/ Next
    \/ Monitor
    \/ MonitorTake
    \/ MonitorDropReceiver

SpecMonitor == InitMonitor /\ [][NextMonitor]_vars

\* =============================================================== claims
\* A request [routing, empty-delimiter, ...F]: a non-empty routing frame, the
\* delimiter, at least one payload frame.
IsRequest(m) == Len(m) >= 3 /\ m[1] # 0 /\ m[2] = 0
LastRequest == delivered.item.m
\* The owner's last completed call was a recv that returned a request.
JustReceived == ret.op = "recv" /\ ret.kind = "ok"
\* This step is a recv returning a request / a write to a sink.
RecvReturns == Len(log') = Len(log) + 1 /\ log'[Len(log')] = "r"
SinkWritten == sinks' # sinks
Count(e) == Cardinality({i \in 1..Len(log) : log[i] = e})

\* C1 (round trip): a recv that delivers the request [routing, empty, ...F]
\* of peer P returns exactly F; the next send(R), with P's connection still
\* registered, pushes [routing, empty, ...R] to P, and when the sink takes it
\* that one message is appended to P's sink and no other sink changes.
C1_Step ==
    /\ (RecvReturns /\ IsRequest(LastRequest')) =>
            /\ ret' = [op |-> "recv", kind |-> "ok",
                       msg |-> SubSeq(LastRequest', 3, Len(LastRequest'))]
            /\ current_request' = delivered'.peer
    /\ \A R \in Replies :
        (/\ SendBegin(R)
         /\ JustReceived
         /\ IsRequest(LastRequest)
         /\ peers[delivered.peer] = delivered.conn) =>
            /\ appPc' = "sending"
            /\ inflight' = [peer |-> delivered.peer, conn |-> delivered.conn,
                            msg |-> <<LastRequest[1], 0>> \o R]
    /\ (appPc = "sending" /\ ret'.op = "send" /\ ret'.kind = "ok") =>
            sinks' = [sinks EXCEPT ![inflight.peer] =
                         Append(@, [conn |-> inflight.conn, msg |-> inflight.msg])]
    /\ (appPc = "sending" /\ appPc' = "sending") => inflight' = inflight
C1_RoundTrip == [][C1_Step]_vars

C1_Witness ==
    /\ ret.op = "send" /\ ret.kind = "ok"
    /\ IsRequest(LastRequest)
    /\ sinks[delivered.peer] # <<>>
    /\ LET w == sinks[delivered.peer][Len(sinks[delivered.peer])]
       IN /\ w.conn = delivered.conn
          /\ Len(w.msg) >= 3
          /\ SubSeq(w.msg, 1, 2) = SubSeq(LastRequest, 1, 2)

\* C2 (concurrent connect): as long as no peer_disconnected and no shutdown
\* has run, however the peer_connected calls interleave with each other and
\* with recv/send, a send that follows a recv finds the peer whose request
\* that recv returned, and its reply is appended to that peer's sink and to
\* no other; no send fails with "Client disconnected".
C2_Step ==
    ~churn' =>
        /\ \A R \in Replies :
            (SendBegin(R) /\ current_request # 0) =>
                /\ appPc' = "sending"
                /\ inflight'.peer = delivered.peer
                /\ inflight'.conn = delivered.conn
        /\ SinkWritten =>
                /\ Len(sinks'[delivered.peer]) = Len(sinks[delivered.peer]) + 1
                /\ \A q \in Ids \ {delivered.peer} : sinks'[q] = sinks[q]
        /\ ret'.kind # ReasonDisconnected
C2_ConcurrentConnect == [][C2_Step]_vars

C2_Witness ==
    /\ ~churn
    /\ \A p \in Ids : Len(sinks[p]) = 1
    /\ Count("r") = NumPeers /\ Count("w") = NumPeers

\* C3 (alternation required): a send called before any recv returned a
\* request, or right after another send, fails with ReturnToSender "No
\* request in progress", hands the argument back as it was given, and
\* attempts no I/O.
C3_Step ==
    \A R \in Replies :
        (SendBegin(R) /\ (Count("r") = 0 \/ ret.op = "send")) =>
            /\ ret' = [op |-> "send", kind |-> ReasonNoRequest, msg |-> R]
            /\ appPc' = "idle"
            /\ sinks' = sinks
C3_AlternationRequired == [][C3_Step]_vars

C3_Witness ==
    /\ ret.op = "send" /\ ret.kind = ReasonNoRequest
    /\ Count("r") > 0
    /\ envelope.some

\* C4 (disconnect race): when peer_disconnected(P) ran after the recv that
\* returned P's request and before the matching send, that send fails with
\* ReturnToSender "Client disconnected", hands the reply back as it was
\* given, and attempts no I/O.
C4_Step ==
    \A R \in Replies :
        (SendBegin(R) /\ gone) =>
            /\ ret' = [op |-> "send", kind |-> ReasonDisconnected, msg |-> R]
            /\ appPc' = "idle"
            /\ sinks' = sinks
C4_DisconnectRace == [][C4_Step]_vars

\* C5 (fairness): a peer with a request ready sees at most NumPeers - 1
\* pulls go to other peers before its own request is pulled, however many
\* requests the others have queued.
C5_Fairness == \A p \in Ids : waited[p] <= NumPeers - 1

C5_Witness ==
    \E a, b \in Ids :
        /\ a # b
        /\ delivered.peer = b
        /\ fq[a].pending >= 1
        /\ fq[b].pending = 0
        /\ Count("r") = 2
        /\ sent = MaxFairItems

\* C6 (minimum frame count): a delivered data message of fewer than 2 frames
\* makes recv return a recoverable protocol-violation error, and the socket
\* stays usable.
C6_MinimumFrameCount ==
    (ret.op = "recv" /\ delivered.item.kind = "msg" /\ Len(delivered.item.m) < 2) =>
        /\ appPc # "crashed"
        /\ ret.kind = "protocol violation"

\* C7 (peer-local failures): a transport read error or a non-data frame from
\* one peer is surfaced or dropped as a recoverable condition of that peer;
\* the socket never reaches a crashed state because of it.
C7_PeerLocalFailures ==
    (ret.op = "recv" /\ delivered.item.kind \in {"ctl", "err"}) => appPc # "crashed"

\* C8 (at most one reply per request): between any two messages written to
\* peer sinks a recv returned a request, and before the first one too, so
\* the messages written never outnumber the requests returned.
RECURSIVE TotalWritten(_)
TotalWritten(S) ==
    IF S = {} THEN 0
    ELSE LET p == CHOOSE q \in S : TRUE
         IN Len(sinks[p]) + TotalWritten(S \ {p})
C8_OneReplyPerRequest ==
    /\ \A i \in 1..Len(log) : log[i] = "w" => (i > 1 /\ log[i - 1] = "r")
    /\ TotalWritten(Ids) = Count("w")
    /\ TotalWritten(Ids) <= Count("r")

C8_Witness == log = <<"r", "w", "r", "w">>

\* C9 (send leaves the socket Idle): once send has taken the pending
\* identity, and after it returned with whatever outcome, no pending identity
\* remains.
C9_SendLeavesIdle ==
    (appPc = "sending" \/ ret.op = "send") => current_request = 0

C9_Witness ==
    /\ ret.op = "send" /\ ret.kind = ReasonDisconnected
    /\ current_request = 0
    /\ envelope.some

\* C10 (no cross-peer blocking): while a send to peer A is suspended on A's
\* sink, peer_connected and peer_disconnected for another identity B can
\* take their step on the peer registry.
C10_NoCrossPeerBlocking ==
    appPc = "sending" =>
        \A B \in Ids \ {inflight.peer} :
            /\ (connPc[B] = "idle" /\ gen[B] > 0) => ENABLED PeerDisconnected(B)
            /\ (connPc[B] = "idle" /\ gen[B] = 0 /\ accepting) =>
                    ENABLED PeerConnectedBegin(B)

\* C11 (fire-and-forget disconnect): peer_disconnected(P) can take its step
\* on the registry with the monitor absent, attached with room, attached but
\* full, or with its receiver dropped, and in each case removes P's entry; a
\* Disconnected event is queued exactly when a sender is attached, its
\* receiver is held and the buffer has room; an event that could not be
\* queued leaves the monitor and everything else as it was.
C11_Step ==
    \A p \in Ids :
        /\ (/\ appPc # "crashed"
            /\ connPc[p] = "idle"
            /\ gen[p] > 0
            /\ ~ShardLocked(p)) => ENABLED PeerDisconnected(p)
        /\ PeerDisconnected(p) =>
            /\ peers'[p] = 0
            /\ (lastEvent'.outcome = "sent") <=>
                    (/\ socket_monitor.chan # 0
                     /\ socket_monitor.rx
                     /\ ~socket_monitor.full)
            /\ lastEvent'.outcome # "sent" => socket_monitor' = socket_monitor
            /\ UNCHANGED <<sinks, fq, rr, envelope, current_request, appPc, inflight,
                           ret, nmon>>
C11_FireAndForgetDisconnect == [][C11_Step]_vars

C11_Witness ==
    /\ lastEvent.outcome = "full"
    /\ socket_monitor.full
    /\ gone
    /\ peers[current_request] = 0

\* C12 (single monitor subscriber): after any number of monitor() calls the
\* one sender installed is that of the latest call, and a Disconnected event
\* that peer_disconnected queues goes to the channel whose receiver the
\* latest call returned, never to an earlier one.
C12_Step ==
    /\ nmon' > 0 => socket_monitor'.chan = nmon'
    /\ \A p \in Ids :
        (PeerDisconnected(p) /\ lastEvent'.outcome = "sent") =>
            /\ nmon > 0
            /\ lastEvent'.chan = nmon
C12_SingleMonitorSubscriber == [][C12_Step]_vars

C12_Witness ==
    /\ nmon = MaxMonitors
    /\ nmon > 1
    /\ lastEvent = [outcome |-> "sent", chan |-> nmon]
    /\ socket_monitor.chan = nmon

\* C13 (shutdown clears and is idempotent): shutdown leaves no entry in the
\* registry and changes nothing else of the socket; run again on the empty
\* registry it leaves the registry as it is; a send for a reply owed while
\* the registry is empty fails with ReturnToSender "Client disconnected",
\* hands the reply back and writes to no sink.
C13_Step ==
    /\ Shutdown =>
            /\ \A p \in Ids : peers'[p] = 0
            /\ UNCHANGED <<sinks, fq, rr, envelope, current_request, appPc, inflight,
                           ret, monitorVars>>
    /\ (Shutdown /\ \A p \in Ids : peers[p] = 0) => peers' = peers
    /\ \A R \in Replies :
        (SendBegin(R) /\ current_request # 0 /\ \A p \in Ids : peers[p] = 0) =>
            /\ ret' = [op |-> "send", kind |-> ReasonDisconnected, msg |-> R]
            /\ appPc' = "idle"
            /\ sinks' = sinks
C13_ShutdownClears == [][C13_Step]_vars

C13_Witness ==
    /\ shut
    /\ lastEvent.outcome = "none"
    /\ ret.op = "send" /\ ret.kind = ReasonDisconnected
    /\ \A p \in Ids : peers[p] = 0

\* C14 (split rule): a recv that returns a request split the delivered
\* message m, of at least 2 frames, at k = the position of its first empty
\* frame counted from 1, or 1 if it has none: the envelope saved is the first
\* k frames, the payload returned is the rest, and the two put back together
\* are m.
FirstEmpty(m) ==
    IF \E i \in 1..Len(m) : m[i] = 0
    THEN CHOOSE i \in 1..Len(m) : m[i] = 0 /\ \A j \in 1..(i - 1) : m[j] # 0
    ELSE 1
C14_SplitRule ==
    (JustReceived /\ appPc = "idle") =>
        LET m == LastRequest
            k == FirstEmpty(m)
        IN /\ Len(m) >= 2
           /\ envelope = SomeMsg(SubSeq(m, 1, k))
           /\ ret.msg = SubSeq(m, k + 1, Len(m))
           /\ envelope.val \o ret.msg = m

C14_Witness ==
    /\ JustReceived
    /\ appPc = "idle"
    /\ LastRequest = <<1, 0, 1>>
    /\ envelope = SomeMsg(<<1, 0>>)
    /\ ret.msg = <<1>>

\* The envelope recv saves for the message m.
EnvelopeOf(m) == SubSeq(m, 1, FirstEmpty(m))

\* C15 (overwrite on second recv): a recv that returns B's request while A is
\* still owed a reply makes the pending exchange B's, identity and envelope,
\* and writes nothing; the next send pushes [B's envelope ++ reply] to B's
\* connection and the write goes to B's sink only, nothing is written to A
\* for the overwritten request, and a further send fails with "No request in
\* progress".
C15_Step ==
    /\ (RecvReturns /\ current_request # 0) =>
            /\ current_request' = delivered'.peer
            /\ envelope' = SomeMsg(EnvelopeOf(LastRequest'))
            /\ replaced' = current_request
            /\ sinks' = sinks
    /\ replaced > 0 =>
            /\ \A R \in Replies :
                (SendBegin(R) /\ JustReceived /\ peers[delivered.peer] # 0) =>
                    inflight' = [peer |-> delivered.peer,
                                 conn |-> peers[delivered.peer],
                                 msg |-> EnvelopeOf(LastRequest) \o R]
            /\ SinkWritten =>
                    sinks' = [sinks EXCEPT ![delivered.peer] =
                                 Append(@, [conn |-> inflight.conn, msg |-> inflight.msg])]
            /\ replaced # delivered.peer => sinks'[replaced] = sinks[replaced]
            /\ \A R \in Replies :
                (SendBegin(R) /\ ret.op = "send") =>
                    ret' = [op |-> "send", kind |-> ReasonNoRequest, msg |-> R]
C15_OverwriteOnSecondRecv == [][C15_Step]_vars

C15_Witness ==
    /\ replaced > 0
    /\ replaced # delivered.peer
    /\ ret.op = "send" /\ ret.kind = "ok"
    /\ sinks[replaced] = <<>>
    /\ Len(sinks[delivered.peer]) = 1
    /\ sinks[delivered.peer][1].msg = EnvelopeOf(LastRequest) \o <<1>>

\* C16 (stale envelope never leaks): whenever an identity is pending, the
\* saved envelope is present and is the envelope of the message that
\* identity's request came in; and the message a send pushes starts with the
\* envelope of the request being answered, so an envelope left behind by a
\* send that failed with "Client disconnected" is never put in front of a
\* later reply.
C16_NoStaleEnvelope ==
    /\ (appPc = "idle" /\ current_request # 0) =>
            /\ current_request = delivered.peer
            /\ envelope = SomeMsg(EnvelopeOf(LastRequest))
    /\ appPc = "sending" =>
            /\ inflight.peer = delivered.peer
            /\ Len(inflight.msg) > Len(EnvelopeOf(LastRequest))
            /\ SubSeq(inflight.msg, 1, Len(EnvelopeOf(LastRequest))) =
                    EnvelopeOf(LastRequest)
            /\ SubSeq(inflight.msg, Len(EnvelopeOf(LastRequest)) + 1,
                      Len(inflight.msg)) \in Replies

C16_Witness ==
    /\ replaced = -1
    /\ appPc = "sending"
    /\ EnvelopeOf(LastRequest) = <<1, 0>>
    /\ inflight.msg = <<1, 0, 1>>

\* C17 (replies reach only the requesting connection): the entry a send
\* pushes the reply to is the connection the request being answered came in
\* on, also when a new connection registered under the same identity after
\* the requester disconnected.
C17_RepliesReachRequester ==
    appPc = "sending" =>
        /\ inflight.peer = delivered.peer
        /\ inflight.conn = delivered.conn

\* C18 (peer_disconnected frame effect): peer_disconnected(P) removes P's
\* entry from peers and leaves every other entry, the fair queue's sources
\* and what they hold, the pending exchange and the sinks as they were; a
\* request of P still queued is returned by a later recv, and the send for
\* it, with no entry under P, fails with ReturnToSender "Client
\* disconnected".
C18_Step ==
    /\ \A p \in Ids :
        PeerDisconnected(p) =>
            /\ peers'[p] = 0
            /\ \A q \in Ids \ {p} : peers'[q] = peers[q]
            /\ UNCHANGED <<fq, rr, envelope, current_request, sinks, appPc,
                           inflight, ret>>
    /\ (RecvReturns /\ peers[delivered'.peer] = 0) =>
            /\ current_request' = delivered'.peer
            /\ fq'[delivered'.peer].pending = fq[delivered'.peer].pending - 1
    /\ \A R \in Replies :
        (SendBegin(R) /\ current_request # 0 /\ peers[current_request] = 0) =>
            /\ ret' = [op |-> "send", kind |-> ReasonDisconnected, msg |-> R]
            /\ sinks' = sinks
C18_DisconnectFrame == [][C18_Step]_vars

C18_Witness ==
    /\ JustReceived
    /\ appPc = "idle"
    /\ current_request # 0
    /\ peers[current_request] = 0
    /\ gen[current_request] = 1
    /\ ~gone
    /\ ~shut
    /\ lastEvent.outcome # "none"

\* C19 (sink failure): when the write to the owed peer's sink fails, send
\* returns the sink's error, not a ReturnToSender, and hands no message back;
\* the pending identity and the saved envelope are both cleared, nothing was
\* appended to a sink, and the next send fails with "No request in
\* progress".
C19_Step ==
    /\ (appPc = "sending" /\ ret'.op = "send" /\ ret'.kind # "ok") =>
            /\ ret' = [op |-> "send", kind |-> "sink error", msg |-> <<>>]
            /\ current_request' = 0
            /\ envelope' = NoneMsg
            /\ appPc' = "idle"
            /\ sinks' = sinks
    /\ \A R \in Replies :
        (SendBegin(R) /\ ret.kind = "sink error") =>
            ret' = [op |-> "send", kind |-> ReasonNoRequest, msg |-> R]
C19_SinkFailure == [][C19_Step]_vars

C19_Witness ==
    /\ ret.op = "send" /\ ret.kind = "sink error"
    /\ current_request = 0
    /\ ~envelope.some
    /\ Count("r") = 1
    /\ sinks[delivered.peer] = <<>>

\* C20 (non-empty payload): the payload a recv returns for a delivered
\* message of at least 2 frames has at least one frame, also when the first
\* empty frame is the last frame of the message.
C20_NonEmptyPayload == JustReceived => Len(ret.msg) >= 1

====
